---- MODULE Spec2Model ----
(***************************************************************************)
(* Retry driver of the backoff package: one call of Retry[T] together     *)
(* with its collaborators (the operation, the BackOff generator, the      *)
(* Timer, the context and the wall clock).                                *)
(*                                                                         *)
(* Time is counted in units of 500ms (the default InitialInterval).       *)
(***************************************************************************)
EXTENDS Integers, Sequences, FiniteSets, TLC

VARIABLES
    args,       \* retryOptions after the option setters ran
    b,          \* state of args.BackOff
    timer,      \* state of args.Timer
    ctxErr,     \* ctx.Err()
    now,        \* wall clock
    startedAt,  \* local startedAt of Retry
    numTries,   \* loop counter of Retry
    pc,         \* position of Retry: idle, attempt, running, wait, done
    inProgress, \* number of invocations of operation that have not returned
    calls,      \* what each finished invocation returned and how, when, and
                \* what ctx.Err() was then, in order
    trace,      \* observable events, in order
    retRes,     \* result returned by Retry
    retErr,     \* error returned by Retry
    exitAt      \* which return statement of Retry was taken

vars == <<args, b, timer, ctxErr, now, startedAt, numTries, pc, inProgress,
          calls, trace, retRes, retErr, exitAt>>

----------------------------------------------------------------------------
(* Bounds of the model *)

\* invocations of the operation explored in one Retry call
MaxCalls == 3
\* clock ticks explored after Retry was called
MaxTime == 4
\* how long the generator had been in use when Retry was called
UsedFor == 2

----------------------------------------------------------------------------
(* Durations *)

Second == 2
Minute == 60 * Second
DefaultMaxElapsedTime == 15 * Minute

\* the sentinel duration of NextBackOff
Stop == -1

\* configuration of the exponential generator
InitialInterval == 1
Multiplier == 2
MaxInterval == 4

----------------------------------------------------------------------------
(* Error values *)

Nil == [tag |-> "nil"]

\* errors.New: a plain error, one per invocation
New(i) == [tag |-> "errorString", id |-> i]

\* fmt.Errorf("%w", e): a plain error wrapping e
Wrap(e) == [tag |-> "wrapError", Err |-> e]

\* variant without the nil test
PermanentWrapsNil(err) == [tag |-> "PermanentError", Err |-> err]

Permanent(err) ==
    IF err = Nil THEN Nil ELSE [tag |-> "PermanentError", Err |-> err]

RetryAfter(seconds) ==
    [tag |-> "RetryAfterError", Duration |-> seconds * Second]

\* (*PermanentError).Unwrap and the Unwrap of a wrapping error; Nil when the
\* error has no Unwrap method
Unwrap(e) ==
    IF e.tag \in {"PermanentError", "wrapError"} THEN e.Err ELSE Nil

\* errors.As(err, &target) for a target of the type named by tag: the first
\* error of the Unwrap chain of that type, Nil when there is none
RECURSIVE As(_, _)
As(err, tag) ==
    IF err = Nil THEN Nil
    ELSE IF err.tag = tag THEN err
    ELSE As(Unwrap(err), tag)

\* the Error() text of an error, as a sequence of pieces:
\* (*PermanentError).Error, (*RetryAfterError).Error, the text of a wrapping
\* error and of a plain one
RECURSIVE Error(_)
Error(e) ==
    IF e.tag = "PermanentError" THEN Error(e.Err)
    ELSE IF e.tag = "RetryAfterError"
         THEN <<"retry after ", ToString(e.Duration)>>
    ELSE IF e.tag = "wrapError" THEN <<"wrapped: ">> \o Error(e.Err)
    ELSE IF e.tag = "errorString" THEN <<"x", ToString(e.id)>>
    ELSE <<e.tag>>

Canceled == [tag |-> "context.Canceled"]
DeadlineExceeded == [tag |-> "context.DeadlineExceeded"]

----------------------------------------------------------------------------
(* The BackOff generator: exponential growth without jitter               *)
(* (RandomizationFactor = 0) inside the max-elapsed-time decorator.        *)
(* b.MaxElapsedTime = 0 switches the decorator off.                        *)

\* BackOff.NextBackOff: the value returned at time t
NextDelay(bo, t) ==
    IF bo.MaxElapsedTime > 0 /\ t - bo.startTime > bo.MaxElapsedTime
    THEN Stop
    ELSE bo.currentInterval

\* BackOff.NextBackOff: the generator after the call at time t
AfterNext(bo, t) ==
    IF bo.MaxElapsedTime > 0 /\ t - bo.startTime > bo.MaxElapsedTime
    THEN bo
    ELSE [bo EXCEPT !.currentInterval =
             IF bo.currentInterval * Multiplier > MaxInterval
             THEN MaxInterval
             ELSE bo.currentInterval * Multiplier]

\* BackOff.Reset at time t
Reset(bo, t) ==
    [bo EXCEPT !.currentInterval = InitialInterval, !.startTime = t]

\* the generators Retry may be handed: fresh or used before
BackOffs ==
    [currentInterval : {InitialInterval, MaxInterval},
     startTime       : {0},
     MaxElapsedTime  : {0, 1}]

----------------------------------------------------------------------------
(* The Timer *)

\* Timer.Start(d) at time t
TimerStart(d, t) == [armed |-> TRUE, deadline |-> t + d, ready |-> FALSE]

\* Timer.Stop
TimerStop(tm) == [tm EXCEPT !.armed = FALSE]

----------------------------------------------------------------------------
(* Events *)

Ev(e, n, d, err) == [ev |-> e, n |-> n, d |-> d, err |-> err]

\* what an invocation of the operation may return as its error: nil, a plain
\* error, a permanent error (bare or wrapped once more), a retry-after error
RetrySeconds == {1}
OpErrors(i) ==
    {Nil, Permanent(Nil), New(i), Permanent(New(i)), Wrap(Permanent(New(i)))}
    \cup {RetryAfter(s) : s \in RetrySeconds}

\* the return statements of the operation: return arg as it is, or return
\* Permanent(arg)
OpReturns(i) ==
    [via : {"plain"},
     arg : {Nil, New(i)} \cup {RetryAfter(s) : s \in RetrySeconds}]
    \cup [via : {"Permanent"}, arg : {Nil, New(i)}]
    \cup [via : {"Wrap(Permanent)"}, arg : {New(i)}]

\* the error a return statement of the operation hands to Retry
ErrOf(o) ==
    IF o.via = "Permanent" THEN Permanent(o.arg)
    ELSE IF o.via = "Wrap(Permanent)" THEN Wrap(Permanent(o.arg))
    ELSE o.arg

----------------------------------------------------------------------------
(* Retry: the decisions of one loop iteration *)

\* variants of the MaxTries comparison that are off by one
MaxTriesReachedEarly(n) == args.MaxTries > 0 /\ n + 1 >= args.MaxTries
MaxTriesReachedLate(n) == args.MaxTries > 0 /\ n > args.MaxTries

\* line 93
MaxTriesReached(n) == args.MaxTries > 0 /\ n >= args.MaxTries

\* variant that already gives up when the elapsed time equals the maximum
ElapsedExceededInclusive(t) == t - startedAt >= args.MaxElapsedTime

\* line 97, with time.Since(startedAt) evaluated at time t
ElapsedExceeded(t) == t - startedAt > args.MaxElapsedTime

\* variant that looks at the outermost error only instead of the chain
IsPermanentOutermost(err) == err.tag = "PermanentError"

\* lines 101-102
IsPermanent(err) == As(err, "PermanentError") # Nil

\* lines 89-104: the return statement an attempt that returned err takes
\* before the generator is asked, or "backoff" when it takes none
AfterAttempt(err, n, t) ==
    IF err = Nil THEN "success"
    ELSE IF MaxTriesReached(n) THEN "maxtries"
    ELSE IF ElapsedExceeded(t) THEN "elapsed"
    ELSE IF IsPermanent(err) THEN "permanent"
    ELSE "backoff"

\* variant without the Stop test, and variant that looks at the context
\* before the Stop test
BeforeWaitNoStop(next, cerr) ==
    IF cerr # Nil THEN "ctxpre" ELSE "wait"
BeforeWaitCtxFirst(next, cerr) ==
    IF cerr # Nil THEN "ctxpre"
    ELSE IF next = Stop THEN "stop"
    ELSE "wait"

\* lines 107-113: the return statement taken once the generator answered next
\* and ctx.Err() is cerr, or "wait" when it takes none
BeforeWait(next, cerr) ==
    IF next = Stop THEN "stop"
    ELSE IF cerr # Nil THEN "ctxpre"
    ELSE "wait"

\* variants that hand back the operation's error although the context is
\* cancelled, one in the select and one in the check before the wait
ReturnedErrOpInWait(at, err, cerr) ==
    IF at = "ctxpre" THEN cerr ELSE err
ReturnedErrOpBeforeWait(at, err, cerr) ==
    IF at = "ctxwait" THEN cerr ELSE err

\* variant that wraps the operation's error when a limit ends the loop
ReturnedErrWrapsExhaustion(at, err, cerr) ==
    IF at \in {"ctxpre", "ctxwait"} THEN cerr
    ELSE IF at \in {"maxtries", "elapsed", "stop"} THEN Wrap(err)
    ELSE err

\* lines 90-123: the error the return statement at hands back when the last
\* attempt returned err and ctx.Err() is cerr
ReturnedErr(at, err, cerr) ==
    IF at \in {"ctxpre", "ctxwait"} THEN cerr ELSE err

\* variant that notifies before the context is looked at
NotifiedBeforeCtxCheck(at) == args.Notify /\ at \in {"wait", "ctxpre"}

\* lines 107-117: whether Notify is called in an iteration that goes on to at
Notified(at) == args.Notify /\ at = "wait"

\* line 119: the duration handed to Timer.Start
Delay(err, next) == next

----------------------------------------------------------------------------
(* Retry: the steps *)

\* variant without the defer: the timer is stopped only where the wait is
\* abandoned
ReturnStopsPendingOnly(res, err, at, evs) ==
    /\ pc' = "done"
    /\ retRes' = res
    /\ retErr' = err
    /\ exitAt' = at
    /\ timer' = IF at = "ctxwait" THEN TimerStop(timer) ELSE timer
    /\ trace' = trace \o evs \o
                (IF at = "ctxwait"
                 THEN <<Ev("Timer.Stop", numTries, 0, Nil)>> ELSE <<>>)

\* a return statement; the deferred args.Timer.Stop() runs with it
Return(res, err, at, evs) ==
    /\ pc' = "done"
    /\ retRes' = res
    /\ retErr' = err
    /\ exitAt' = at
    /\ timer' = TimerStop(timer)
    /\ trace' = trace \o evs \o <<Ev("Timer.Stop", numTries, 0, Nil)>>

\* variant that looks at the context before the first attempt
RetryCtxFirst ==
    /\ pc = "idle"
    /\ startedAt' = now
    /\ b' = Reset(b, now)
    /\ numTries' = 1
    /\ IF ctxErr = Nil
       THEN /\ pc' = "attempt"
            /\ trace' = trace \o <<Ev("Reset", 0, b.currentInterval, Nil)>>
            /\ UNCHANGED <<timer, retRes, retErr, exitAt>>
       ELSE Return(0, ctxErr, "ctxpre",
                   <<Ev("Reset", 0, b.currentInterval, Nil)>>)
    /\ UNCHANGED <<args, ctxErr, now, inProgress, calls>>

\* variant that leaves the generator as it was handed in
RetryNoReset ==
    /\ pc = "idle"
    /\ pc' = "attempt"
    /\ startedAt' = now
    /\ b' = b
    /\ numTries' = 1
    /\ trace' = trace
    /\ UNCHANGED <<args, timer, ctxErr, now, inProgress, calls,
                   retRes, retErr, exitAt>>

\* lines 71-87: options applied, startedAt taken, generator reset; the Reset
\* event carries the interval the generator had grown to
Retry ==
    /\ pc = "idle"
    /\ pc' = "attempt"
    /\ startedAt' = now
    /\ b' = Reset(b, now)
    /\ numTries' = 1
    /\ trace' = trace \o <<Ev("Reset", 0, b.currentInterval, Nil)>>
    /\ UNCHANGED <<args, timer, ctxErr, now, inProgress, calls,
                   retRes, retErr, exitAt>>

\* line 88: operation() is called
Invoke ==
    /\ pc = "attempt"
    /\ numTries <= MaxCalls
    /\ pc' = "running"
    /\ inProgress' = inProgress + 1
    /\ trace' = trace \o <<Ev("operation", numTries, 0, Nil)>>
    /\ UNCHANGED <<args, b, timer, ctxErr, now, startedAt, numTries, calls,
                   retRes, retErr, exitAt>>

\* lines 88-119: operation() returns (res, err) and the iteration runs up to
\* a return statement or up to the select
OperationReturns ==
    /\ pc = "running"
    /\ \E o \in OpReturns(numTries) :
         LET err   == ErrOf(o)
             res   == numTries
             ret   == Ev("return", numTries, 0, err)
             first == AfterAttempt(err, numTries, now)
             next  == NextDelay(b, now)
             nb    == Ev("NextBackOff", numTries, next, Nil)
             at    == BeforeWait(next, ctxErr)
             d     == Delay(err, next)
             note  == IF Notified(at)
                      THEN <<Ev("Notify", numTries, d, err)>> ELSE <<>>
         IN  /\ inProgress' = inProgress - 1
             /\ calls' = Append(calls, [res |-> res, err |-> err,
                                        t |-> now, ctx |-> ctxErr,
                                        via |-> o.via, arg |-> o.arg])
             /\ IF first # "backoff"
                THEN /\ Return(res, ReturnedErr(first, err, ctxErr), first,
                            <<ret>>)
                     /\ b' = b
                ELSE /\ b' = AfterNext(b, now)
                     /\ IF at # "wait"
                        THEN Return(res, ReturnedErr(at, err, ctxErr), at,
                                    <<ret, nb>> \o note)
                        ELSE /\ pc' = "wait"
                             /\ timer' = TimerStart(d, now)
                             /\ trace' = trace \o <<ret, nb>> \o note
                                         \o <<Ev("Timer.Start", numTries, d, Nil)>>
                             /\ UNCHANGED <<retRes, retErr, exitAt>>
    /\ UNCHANGED <<args, ctxErr, now, startedAt, numTries>>

\* variant in which the timer case does not leave the select: the value is
\* taken from the channel and the select is entered again
WaitTimerReselects ==
    /\ pc = "wait"
    /\ timer.ready
    /\ timer' = [timer EXCEPT !.ready = FALSE]
    /\ trace' = trace \o <<Ev("<-Timer.C", numTries, 0, Nil)>>
    /\ UNCHANGED <<args, b, ctxErr, now, startedAt, numTries, pc, inProgress,
                   calls, retRes, retErr, exitAt>>

\* variant that does not block: the loop goes on whether or not the timer
\* has fired
WaitTimerNoBlock ==
    /\ pc = "wait"
    /\ timer' = [timer EXCEPT !.ready = FALSE]
    /\ numTries' = numTries + 1
    /\ pc' = "attempt"
    /\ trace' = trace \o <<Ev("<-Timer.C", numTries, 0, Nil)>>
    /\ UNCHANGED <<args, b, ctxErr, now, startedAt, inProgress, calls,
                   retRes, retErr, exitAt>>

\* line 121: the select takes the timer's channel
WaitTimer ==
    /\ pc = "wait"
    /\ timer.ready
    /\ timer' = [timer EXCEPT !.ready = FALSE]
    /\ numTries' = numTries + 1
    /\ pc' = "attempt"
    /\ trace' = trace \o <<Ev("<-Timer.C", numTries, 0, Nil)>>
    /\ UNCHANGED <<args, b, ctxErr, now, startedAt, inProgress, calls,
                   retRes, retErr, exitAt>>

\* lines 122-123: the select takes ctx.Done()
WaitCancel ==
    /\ pc = "wait"
    /\ ctxErr # Nil
    /\ Return(calls[Len(calls)].res,
              ReturnedErr("ctxwait", calls[Len(calls)].err, ctxErr),
              "ctxwait", <<>>)
    /\ UNCHANGED <<args, b, ctxErr, now, startedAt, numTries, inProgress,
                   calls>>

----------------------------------------------------------------------------
(* The environment *)

\* the timer started for d fires: a value is sent on its channel
TimerFires ==
    /\ timer.armed
    /\ now >= timer.deadline
    /\ timer' = [timer EXCEPT !.armed = FALSE, !.ready = TRUE]
    /\ trace' = trace \o <<Ev("fire", numTries, 0, Nil)>>
    /\ UNCHANGED <<args, b, ctxErr, now, startedAt, numTries, pc, inProgress,
                   calls, retRes, retErr, exitAt>>

\* the context is cancelled or its deadline passes
Cancel ==
    /\ ctxErr = Nil
    /\ pc # "done"
    /\ \E e \in {Canceled, DeadlineExceeded} : ctxErr' = e
    /\ trace' = trace \o <<Ev("cancel", numTries, 0, Nil)>>
    /\ UNCHANGED <<args, b, timer, now, startedAt, numTries, pc, inProgress,
                   calls, retRes, retErr, exitAt>>

\* the clock advances
Tick ==
    /\ pc # "done"
    /\ now < UsedFor + MaxTime
    /\ now' = now + 1
    /\ UNCHANGED <<args, b, timer, ctxErr, startedAt, numTries, pc,
                   inProgress, calls, trace, retRes, retErr, exitAt>>

----------------------------------------------------------------------------
\* the option values explored
MaxTriesValues == {0, 1, 2}
MaxElapsedTimeValues == {-1, 0, 2, DefaultMaxElapsedTime}

Init ==
    /\ args \in [Notify : BOOLEAN,
                 MaxElapsedTime : MaxElapsedTimeValues,
                 MaxTries : MaxTriesValues]
    /\ b \in BackOffs
    /\ timer = [armed |-> FALSE, deadline |-> 0, ready |-> FALSE]
    /\ ctxErr = Nil
    /\ now = UsedFor
    /\ startedAt = 0
    /\ numTries = 0
    /\ pc = "idle"
    /\ inProgress = 0
    /\ calls = <<>>
    /\ trace = <<>>
    /\ retRes = 0
    /\ retErr = Nil
    /\ exitAt = "none"

Next ==
    \/ Retry
    \/ Invoke
    \/ OperationReturns
    \/ WaitTimer
    \/ WaitCancel
    \/ TimerFires
    \/ Cancel
    \/ Tick

Spec == Init /\ [][Next]_vars

\* Retry is sequential code that keeps running, the operation returns, the
\* clock advances and a timer that is due fires; nothing obliges the context
\* to be cancelled
FairSpec ==
    /\ Spec
    /\ WF_vars(Retry)
    /\ WF_vars(Invoke)
    /\ WF_vars(OperationReturns)
    /\ WF_vars(WaitTimer)
    /\ WF_vars(WaitCancel)
    /\ WF_vars(TimerFires)
    /\ WF_vars(Tick)

TypeOK ==
    /\ pc \in {"idle", "attempt", "running", "wait", "done"}
    /\ inProgress \in 0..1
    /\ numTries \in 0..(MaxCalls + 1)
    /\ Len(calls) <= MaxCalls

----------------------------------------------------------------------------
(* Vocabulary of the properties *)

\* the last finished invocation
Last == calls[Len(calls)]

\* positions of the events named e
Indices(e) == {i \in 1..Len(trace) : trace[i].ev = e}

\* position of the event e of attempt n, 0 when there is none
IndexOf(e, n) ==
    IF \E i \in Indices(e) : trace[i].n = n
    THEN CHOOSE i \in Indices(e) : trace[i].n = n
    ELSE 0

\* the events Retry itself causes after position i
CausedAfter(i) ==
    {trace[j].ev : j \in (i + 1)..Len(trace)} \ {"cancel", "fire"}

\* Retry returned right after attempt n came back: nothing but the deferred
\* Timer.Stop follows
ReturnedRightAfter(n) ==
    /\ pc = "done"
    /\ n = Len(calls)
    /\ CausedAfter(IndexOf("return", n)) = {"Timer.Stop"}

\* an error that is neither nil nor one of the two signals
Plain(err) ==
    /\ err # Nil
    /\ As(err, "PermanentError") = Nil
    /\ As(err, "RetryAfterError") = Nil

\* attempt i failed and hit neither MaxTries nor MaxElapsedTime
WithinLimits(i) ==
    /\ calls[i].err # Nil
    /\ args.MaxTries = 0 \/ i < args.MaxTries
    /\ calls[i].t - startedAt <= args.MaxElapsedTime

\* the generator never answered Stop
NeverStopped == \A i \in Indices("NextBackOff") : trace[i].d # Stop

----------------------------------------------------------------------------
(* Properties *)

\* C1: Retry invokes the operation at least once before it returns, whatever
\* the options and the context, and never has two invocations in progress.
InvokedAtLeastOnce ==
    /\ pc = "done" => Len(calls) >= 1 /\ Indices("operation") # {}
    /\ inProgress <= 1

\* C1 case: the context was cancelled before Retry was called and the first
\* NextBackOff answered Stop
StopFirstCancelledBefore ==
    /\ pc = "done"
    /\ trace[1].ev = "cancel"
    /\ exitAt = "stop"
    /\ Len(calls) = 1

\* C2: a success ends Retry at once with that result and a nil error, and a
\* run of plain failures that hits no limit, sees no Stop and no cancellation
\* only ends with a success, after exactly failures + 1 invocations.
SuccessAfterPlainFailures ==
    /\ \A i \in 1..Len(calls) :
         calls[i].err = Nil =>
           /\ ReturnedRightAfter(i)
           /\ retErr = Nil
           /\ retRes = calls[i].res
    /\ ( /\ pc = "done"
         /\ ctxErr = Nil
         /\ NeverStopped
         /\ \A i \in 1..Len(calls) :
              calls[i].err # Nil => Plain(calls[i].err) /\ WithinLimits(i) )
       => /\ Last.err = Nil
          /\ \A i \in 1..(Len(calls) - 1) : calls[i].err # Nil
          /\ Cardinality(Indices("operation")) = Len(calls)

\* C2 case: two plain failures, then a success
FailedTwiceThenSucceeded ==
    /\ pc = "done"
    /\ Len(calls) = 3
    /\ Plain(calls[1].err) /\ Plain(calls[2].err)
    /\ WithinLimits(1) /\ WithinLimits(2)
    /\ Last.err = Nil
    /\ ctxErr = Nil

\* C3: with MaxTries = n > 0 the operation is invoked at most n times and a
\* failed n-th invocation is returned unchanged right away; with MaxTries = 0
\* the attempt count never ends the loop.
MaxTriesBound ==
    /\ args.MaxTries > 0 => Cardinality(Indices("operation")) <= args.MaxTries
    /\ ( /\ args.MaxTries > 0
         /\ Len(calls) = args.MaxTries
         /\ Last.err # Nil )
       => /\ ReturnedRightAfter(args.MaxTries)
          /\ exitAt = "maxtries"
          /\ retRes = Last.res
          /\ retErr = Last.err
    /\ args.MaxTries = 0 => exitAt # "maxtries"

\* C3 case: MaxTries = 2 and two failures
SecondFailureReturned ==
    /\ pc = "done"
    /\ args.MaxTries = 2
    /\ Len(calls) = 2
    /\ calls[1].err # Nil /\ calls[2].err # Nil

\* C4: an invocation whose error unwraps to a PermanentError is the last one,
\* and Retry returns right after it without NextBackOff, Notify, Timer.Start.
PermanentEndsRetry ==
    \A i \in 1..Len(calls) :
        As(calls[i].err, "PermanentError") # Nil =>
          /\ ReturnedRightAfter(i)
          /\ IndexOf("NextBackOff", i) = 0
          /\ IndexOf("Notify", i) = 0
          /\ IndexOf("Timer.Start", i) = 0

\* C4 case: a permanent error inside another error, below MaxTries and within
\* MaxElapsedTime, after an earlier plain failure
WrappedPermanentReturned ==
    /\ pc = "done"
    /\ Len(calls) = 2
    /\ Last.err = Wrap(Permanent(New(2)))
    /\ WithinLimits(2)
    /\ exitAt = "permanent"

\* C5: when the operation returns a permanent error, Retry returns the error
\* it wraps (the Err field), not the *PermanentError.
PermanentReturnsWrappedErr ==
    ( /\ exitAt = "permanent"
      /\ Last.err.tag = "PermanentError" )
    => retErr = Last.err.Err

\* C6: a retried failure whose error unwraps to a RetryAfterError is followed
\* by a wait of exactly its Duration.
RetryAfterSetsTheWait ==
    ( /\ pc = "wait"
      /\ As(Last.err, "RetryAfterError") # Nil )
    => trace[IndexOf("Timer.Start", Len(calls))].d
         = As(Last.err, "RetryAfterError").Duration

\* C7: a retried failure whose error unwraps to a RetryAfterError resets the
\* generator in that iteration, so the delay after the next plain failure is
\* the initial interval.
RetryAfterResetsBackOff ==
    /\ ( /\ pc = "wait"
         /\ As(Last.err, "RetryAfterError") # Nil )
       => /\ \E i \in Indices("Reset") : i > IndexOf("return", Len(calls))
          /\ b.currentInterval = InitialInterval
    /\ \A i \in 2..Len(calls) :
         ( /\ As(calls[i - 1].err, "RetryAfterError") # Nil
           /\ Plain(calls[i].err)
           /\ IndexOf("Timer.Start", i) # 0 )
         => trace[IndexOf("NextBackOff", i)].d = InitialInterval

\* the cancellations that arrive during a wait whose timer has not fired
CancelledInWait ==
    {i \in Indices("cancel") : i > 1 /\ trace[i - 1].ev = "Timer.Start"}

\* invocations that start after position i
InvokedAfter(i) == {j \in Indices("operation") : j > i}

\* C8 as stated: after a cancellation during a wait the operation is not
\* invoked again and Retry returns the context's error from the wait.
CancelInWaitEndsRetry ==
    \A i \in CancelledInWait :
        /\ InvokedAfter(i) = {}
        /\ pc = "done" => exitAt = "ctxwait" /\ retErr = ctxErr

\* C8: when the select ends a wait through ctx.Done(), Retry returns the
\* context's error and the last result, with no invocation after the wait
\* began; after a cancellation during a wait the operation is invoked again
\* only if the timer fired before the select was resolved, and in any case
\* at most one invocation starts after a cancellation.
CancelInWait ==
    /\ exitAt = "ctxwait" =>
         /\ ctxErr # Nil
         /\ retErr = ctxErr
         /\ retRes = Last.res
         /\ CausedAfter(IndexOf("Timer.Start", Len(calls))) = {"Timer.Stop"}
    /\ \A i \in Indices("cancel") : Cardinality(InvokedAfter(i)) <= 1
    /\ \A i \in CancelledInWait :
         \A j \in InvokedAfter(i) :
             \E k \in Indices("fire") : i < k /\ k < j

\* C8 case: cancelled during the wait after a failure, returned before the
\* timer was due
ReturnedBeforeTimerDue ==
    /\ exitAt = "ctxwait"
    /\ CancelledInWait # {}
    /\ now < timer.deadline
    /\ Last.err # Nil

\* C9: a failed attempt that reaches the check before the wait with the
\* context cancelled makes Retry return the context's error, without Notify
\* and without Timer.Start for that attempt.
CancelledBeforeWait ==
    \A i \in 1..Len(calls) :
        ( /\ calls[i].ctx # Nil
          /\ WithinLimits(i)
          /\ As(calls[i].err, "PermanentError") = Nil
          /\ ~ \E k \in Indices("NextBackOff") :
                   trace[k].n = i /\ trace[k].d = Stop )
        => /\ pc = "done"
           /\ i = Len(calls)
           /\ exitAt = "ctxpre"
           /\ retErr = calls[i].ctx
           /\ retRes = calls[i].res
           /\ IndexOf("Notify", i) = 0
           /\ IndexOf("Timer.Start", i) = 0

\* C9 case: Notify configured, context cancelled while the second attempt ran
CancelledDuringSecondAttempt ==
    /\ exitAt = "ctxpre"
    /\ args.Notify
    /\ Len(calls) = 2
    /\ calls[1].ctx = Nil

\* C10: a MaxElapsedTime of zero or less never makes Retry return through
\* the elapsed-time check.
NonPositiveMaxElapsedTimeIsOff ==
    args.MaxElapsedTime <= 0 => exitAt # "elapsed"

\* C11 as stated: Notify is not invoked for an attempt whose iteration ends
\* with Retry returning, whatever the return, a cancellation included.
NoNotifyForLastAttempt ==
    pc = "done" => IndexOf("Notify", Len(calls)) = 0

\* C11: with Notify configured, every Timer.Start is directly preceded by
\* the one Notify of that attempt, carrying the attempt's error and the
\* delay given to Timer.Start; an attempt without a wait has no Notify, so
\* the only return that follows a Notify is the cancellation during the wait.
NotifyBeforeEachWait ==
    /\ \A k \in Indices("Timer.Start") :
         args.Notify =>
           /\ trace[k - 1].ev = "Notify"
           /\ trace[k - 1].n = trace[k].n
           /\ trace[k - 1].d = trace[k].d
           /\ trace[k - 1].err = calls[trace[k].n].err
    /\ \A k \in Indices("Notify") :
         /\ args.Notify
         /\ trace[k + 1].ev = "Timer.Start"
         /\ \A j \in Indices("Notify") : trace[j].n = trace[k].n => j = k
    /\ ( /\ pc = "done"
         /\ exitAt # "ctxwait" )
       => IndexOf("Notify", Len(calls)) = 0

\* C11 case: Notify configured, two waits, and a return from the check
\* before the wait of the third attempt
NotifiedTwiceThenCancelled ==
    /\ args.Notify
    /\ Cardinality(Indices("Notify")) = 2
    /\ exitAt = "ctxpre"
    /\ Len(calls) = 3

\* the return statements of Retry
ExitPaths ==
    {"success", "permanent", "maxtries", "elapsed", "stop", "ctxpre", "ctxwait"}

\* C12: on every exit path Timer.Stop is the last thing Retry does before it
\* returns, it is called once, and no Timer.Start follows it.
TimerStoppedOnEveryExit ==
    /\ pc = "done" =>
         /\ exitAt \in ExitPaths
         /\ trace[Len(trace)].ev = "Timer.Stop"
         /\ Cardinality(Indices("Timer.Stop")) = 1
         /\ \A k \in Indices("Timer.Start") : k < Len(trace)
         /\ ~timer.armed
    /\ pc # "done" => Indices("Timer.Stop") = {} /\ exitAt = "none"

\* C12 case: a return through the elapsed-time check after a wait, so the
\* timer had been started before it was stopped
StoppedAfterAStart ==
    /\ exitAt = "elapsed"
    /\ Len(calls) = 2
    /\ Indices("Timer.Start") # {}
    /\ trace[Len(trace)].ev = "Timer.Stop"

StopEndsRetry ==
    \A k \in Indices("NextBackOff") :
        trace[k].d = Stop =>
          /\ pc = "done"
          /\ trace[k].n = Len(calls)
          /\ exitAt = "stop"
          /\ retErr = Last.err
          /\ retRes = Last.res
          /\ CausedAfter(k) = {"Timer.Stop"}
          /\ IndexOf("Notify", Len(calls)) = 0
          /\ IndexOf("Timer.Start", Len(calls)) = 0

\* C14 case: Stop with Notify configured and the context already cancelled
StopWithNotifyAndCancelledCtx ==
    /\ exitAt = "stop"
    /\ args.Notify
    /\ Last.ctx # Nil
    /\ Plain(Last.err)

\* C15: Permanent(nil) is nil, so Retry takes an operation that returns
\* Permanent(nil) as a success; Permanent(e) of a non-nil e is a non-nil
\* *PermanentError whose Unwrap() is e and whose Error() text is e's.
PermanentOfNilIsSuccess ==
    /\ \A i \in 1..Len(calls) :
         calls[i].via = "Permanent" =>
           IF calls[i].arg = Nil
           THEN /\ calls[i].err = Nil
                /\ ReturnedRightAfter(i)
                /\ exitAt = "success"
                /\ retErr = Nil
                /\ retRes = calls[i].res
           ELSE /\ calls[i].err # Nil
                /\ calls[i].err.tag = "PermanentError"
                /\ Unwrap(calls[i].err) = calls[i].arg
                /\ Error(calls[i].err) = Error(calls[i].arg)
    /\ \A i \in 1..Len(calls) : calls[i].err \in OpErrors(i)

\* C15 case: a plain failure, then the operation returns Permanent(nil)
PermanentNilAfterFailure ==
    /\ pc = "done"
    /\ Len(calls) = 2
    /\ Last.via = "Permanent"
    /\ Last.arg = Nil
    /\ calls[1].via = "plain"
    /\ calls[1].arg = New(1)
    /\ retErr = Nil

\* the events without the cancellations, which may fall anywhere
NotCancel(e) == e.ev # "cancel"
Steps == SelectSeq(trace, NotCancel)

\* what lies between the start of an attempt and the start of the next one
OneIteration ==
    <<"operation", "return", "NextBackOff">>
    \o (IF args.Notify THEN <<"Notify">> ELSE <<>>)
    \o <<"Timer.Start", "fire", "<-Timer.C", "operation">>

\* C16: between two consecutive invocations there is exactly this, in this
\* order: the return of invocation N, NextBackOff, Notify if configured,
\* Timer.Start, the timer firing, the select taking the timer's channel.
StrictOrderPerAttempt ==
    \A j \in 1..Len(Steps) :
        ( /\ Steps[j].ev = "operation"
          /\ Steps[j].n >= 2 )
        => LET len  == Len(OneIteration)
               from == j - len + 1
           IN  /\ from >= 1
               /\ \A k \in 1..len :
                    /\ Steps[from + k - 1].ev = OneIteration[k]
                    /\ k < len => Steps[from + k - 1].n = Steps[j].n - 1

\* C16 case: three invocations with Notify configured and a cancellation
\* during the third
ThreeInvocationsInOrder ==
    /\ args.Notify
    /\ Cardinality(Indices("operation")) = 3
    /\ Indices("cancel") # {}
    /\ pc = "done"

\* C17: a failed attempt that ends later than a positive MaxElapsedTime
\* after the start makes Retry return its result and error as they are,
\* without NextBackOff, Notify or Timer.Start; the check runs only after a
\* failed attempt: a success stays a success and a wait is not interrupted.
ElapsedTimeEndsRetry ==
    /\ \A i \in 1..Len(calls) :
         ( /\ calls[i].err # Nil
           /\ args.MaxElapsedTime > 0
           /\ calls[i].t - startedAt > args.MaxElapsedTime )
         => /\ ReturnedRightAfter(i)
            /\ retErr = calls[i].err
            /\ retRes = calls[i].res
            /\ exitAt = IF args.MaxTries > 0 /\ i >= args.MaxTries
                        THEN "maxtries" ELSE "elapsed"
    /\ \A i \in 1..Len(calls) :
         calls[i].err = Nil => exitAt = "success" /\ retErr = Nil
    /\ exitAt = "elapsed" =>
         /\ Last.err # Nil
         /\ Last.t - startedAt > args.MaxElapsedTime
         /\ ReturnedRightAfter(Len(calls))
    /\ pc = "wait" => exitAt = "none"

\* C17 case: MaxElapsedTime exceeded at the second attempt, a plain failure,
\* with MaxTries off; the first attempt was still within the time
ElapsedAtSecondPlainFailure ==
    /\ exitAt = "elapsed"
    /\ args.MaxElapsedTime > 0
    /\ args.MaxTries = 0
    /\ Len(calls) = 2
    /\ Plain(Last.err)
    /\ calls[1].t - startedAt <= args.MaxElapsedTime

\* C19: Retry resets the generator before the first invocation, so the first
\* NextBackOff answers what a generator reset at the start of Retry answers,
\* however far the generator had grown or run out of time before.
ResetBeforeFirstAttempt ==
    /\ pc # "idle" => Len(Steps) >= 1 /\ Steps[1].ev = "Reset"
    /\ \A k \in Indices("operation") : \E r \in Indices("Reset") : r < k
    /\ \A k \in Indices("NextBackOff") :
         trace[k].n = 1 =>
           trace[k].d = NextDelay(Reset(b, startedAt), calls[1].t)

\* C19 case: a generator that had grown to MaxInterval and whose elapsed
\* time had run out answers the initial interval at the first NextBackOff
UsedGeneratorStartsAfresh ==
    /\ Indices("Reset") # {}
    /\ trace[IndexOf("Reset", 0)].d = MaxInterval
    /\ b.MaxElapsedTime > 0
    /\ IndexOf("NextBackOff", 1) # 0
    /\ trace[IndexOf("NextBackOff", 1)].d = InitialInterval

\* errors of the context
CtxErrors == {Canceled, DeadlineExceeded}

\* C20: an attempt that ends with the context already cancelled and that
\* succeeds, reaches MaxTries, exceeds MaxElapsedTime, returns a permanent
\* error or gets Stop makes Retry return the operation's own result and
\* error; the context's error comes only from the check before the wait and
\* from the wait.
CtxDoesNotPreempt ==
    /\ \A i \in 1..Len(calls) :
         ( /\ calls[i].ctx # Nil
           /\ \/ calls[i].err = Nil
              \/ args.MaxTries > 0 /\ i >= args.MaxTries
              \/ calls[i].t - startedAt > args.MaxElapsedTime
              \/ As(calls[i].err, "PermanentError") # Nil
              \/ \E k \in Indices("NextBackOff") :
                     trace[k].n = i /\ trace[k].d = Stop )
         => /\ pc = "done"
            /\ i = Len(calls)
            /\ retErr = calls[i].err
            /\ retRes = calls[i].res
            /\ exitAt \notin {"ctxpre", "ctxwait"}
    /\ retErr \in CtxErrors <=> exitAt \in {"ctxpre", "ctxwait"}

\* C20 case: a permanent error from an attempt that ended after the
\* cancellation, within MaxTries and MaxElapsedTime
PermanentAfterCancellation ==
    /\ exitAt = "permanent"
    /\ Last.ctx # Nil
    /\ retErr = Last.err

\* one of the things that end the loop has happened: a success, a permanent
\* error, MaxTries set, a Stop, MaxElapsedTime exceeded at a failed attempt,
\* a cancelled context
Ending ==
    \/ \E i \in 1..Len(calls) : calls[i].err = Nil
    \/ \E i \in 1..Len(calls) : As(calls[i].err, "PermanentError") # Nil
    \/ args.MaxTries > 0
    \/ ~NeverStopped
    \/ \E i \in 1..Len(calls) :
           calls[i].err # Nil /\ calls[i].t - startedAt > args.MaxElapsedTime
    \/ ctxErr # Nil

\* C18: in every run in which each invocation returns, each started timer
\* fires (or is stopped) and one of the endings eventually happens, Retry
\* eventually returns; runs are followed for MaxCalls invocations.
RetryEventuallyReturns ==
    ( /\ [](numTries <= MaxCalls)
      /\ [](timer.armed => <>(~timer.armed))
      /\ <>Ending )
    => <>(pc = "done")

\* C18 case: Retry returned after a wait that ended by the timer, because
\* the context was cancelled
ReturnedAfterWaitAndCancel ==
    /\ pc = "done"
    /\ Indices("<-Timer.C") # {}
    /\ ctxErr # Nil
    /\ args.MaxTries = 0
    /\ Last.err # Nil

====
